---- MODULE Spec2Model ----
(***************************************************************************)
(* Model of the CYD stopwatch (plantersensor/deploy/stopwatch.py): the     *)
(* Stopwatch object driven by start/stop/reset calls and read by           *)
(* get_elapsed_time, over the MicroPython millisecond tick counter, which  *)
(* wraps at TICKS_PERIOD and whose differences are taken by                *)
(* time.ticks_diff.  Spec runs the stopwatch millisecond by millisecond    *)
(* over a scaled-down counter; SpecDevice runs it over the 30-bit counter  *)
(* of the device, the clock advancing in jumps, with the formatting and    *)
(* statistics queries.  SpecApp runs the application around it             *)
(* (deploy/main.py, deploy/touch_handler.py, display_manager.py): the main *)
(* loop polling the touch screen, the touch interrupt, the LED and the     *)
(* status line; SpecTouch runs the touch handler alone under a polling     *)
(* loop; SpecThreads runs the stopwatch statement by statement against a   *)
(* reader in a second thread (web_monitor.py).                             *)
(***************************************************************************)
EXTENDS Integers, Sequences, FiniteSets, TLC

\* Width in bits of the wrapping tick counter (30 on the ESP32 port, scaled
\* down here so that a wraparound is reached).
TicksBits == 5

\* Number of milliseconds of real time a behaviour covers.
MaxTime == 20

\* Width in bits of the tick counter of the device.
DeviceTicksBits == 30

\* Number of clock jumps a behaviour of SpecDevice covers.
MaxAdvances == 3

\* Milliseconds that may pass between the two clock reads made inside one
\* get_session_stats() call.
MaxDrift == 1

VARIABLES
    ticks_bits,     \* width in bits of the tick counter of this run
    now,            \* the platform tick counter, what time.ticks_ms() returns
    start_time,     \* Stopwatch.start_time
    total_elapsed,  \* Stopwatch.total_elapsed
    running,        \* Stopwatch.running
    session,        \* the session time printed by the last stop()
    result,         \* the value returned by the last get_elapsed_time()
    lastOp,         \* the last step taken, with the branch it took
    phase,          \* "new" until the first start(), "reset" from a reset()
                    \* until the next start(), "used" otherwise
    uptime,         \* history: real milliseconds since power-up
    seg_begin,      \* history: uptime at the start() that opened the segment,
                    \* or at the reset() that discarded it
    closed_sum,     \* history: sum of the modular durations of the segments
                    \* closed since the last reset()
    max_stopped,    \* history: largest elapsed() of the stopped states left
                    \* since the last reset()
    seg_max,        \* history: <<largest elapsed() read in the open segment>>,
                    \* <<>> when it was never read; kept through the stop()
                    \* that closes the segment and dropped by the next step
    text,           \* the string returned by the last get_formatted_time(),
                    \* as a sequence of characters
    style,          \* the format_type of the last get_formatted_time()
    stats,          \* the dict returned by the last get_session_stats() or
                    \* get_time_components()
    flag,           \* the value returned by the last is_running()
    drift,          \* history: milliseconds that passed inside the last call
    advances,       \* history: number of clock jumps taken
    led_enabled,    \* config.LED_ENABLED
    touch_available,\* TouchHandler.touch_available
    pc,             \* where the application is: "off" when only the stopwatch
                    \* is run, "main" before StopwatchApp(), "poll" at the top
                    \* of a loop iteration, "handle" once get_touch() has
                    \* picked its return value, "except" in the except
                    \* Exception clause, "finally" before cleanup(), "exited"
                    \* when run_main_loop has returned, "raised" when it was
                    \* left by an exception, "fatal" when __init__ raised
    app_running,    \* StopwatchApp.running
    led,            \* the LED that is lit: "ready" (blue), "running" (green),
                    \* "stopped" (red) or "none"
    last_touch_time,\* TouchHandler.last_touch_time
    last_touch_pos, \* TouchHandler.last_touch_pos
    pressed,        \* where the finger is on the panel, None when lifted
    touch_coords,   \* the value get_touch() is about to return
    from_slot,      \* get_touch() took it from last_touch_pos and has not
                    \* cleared last_touch_pos yet
    last_update,    \* StopwatchApp.last_update
    gc_counter,     \* StopwatchApp.gc_counter
    status,         \* the status line last drawn by update_stopwatch_display
    pending_exc,    \* an exception is propagating out of run_main_loop
    iterations,     \* history: loop iterations begun
    idles,          \* history: idle periods taken
    cleanups,       \* history: number of times cleanup() was executed
    touch_op,       \* history: the stopwatch calls made by the last
                    \* handle_touch_input(), in order
    op_uptime,      \* history: uptime of the last stopwatch call made by
                    \* handle_touch_input(), -1 before the first
    op_gap,         \* history: time between the last two such calls, -1
                    \* before the second
    read_failed,    \* history: the touch driver raised in this iteration
    unread,         \* history: last_touch_pos holds a position accepted by
                    \* the interrupt that no get_touch() has picked up
    lost,           \* history: an accepted position was overwritten or
                    \* cleared before any get_touch() picked it up
    ctl_pc,         \* the control thread inside start/stop/reset: "idle",
                    \* or the statement it is about to execute
    rd_pc,          \* the reader thread inside get_elapsed_time()
    rd_el,          \* the reader's local current_elapsed
    committed,      \* history: the values of (start_time, total_elapsed,
                    \* running) left by the last completed stopwatch call
    snaps           \* history: the set of such values that were current at
                    \* some time during the last read

\* The period of the tick counter: ticks_ms() is in 0 .. TICKS_PERIOD - 1.
TICKS_PERIOD == 2 ^ ticks_bits

TICKS_HALF == TICKS_PERIOD \div 2

\* Readings of the counter at which the application may be constructed (the
\* reference point of ticks_ms() is arbitrary): zero, and ten ticks before
\* the counter wraps.
BootTicks == {0, TICKS_PERIOD - 10}

sw == <<start_time, total_elapsed, running>>

\* What the queries other than get_elapsed_time() return.
out == <<text, style, stats, flag, drift>>

\* The state of the application around the stopwatch.
app_vars == <<led_enabled, touch_available, pc, app_running, led,
              last_touch_time, last_touch_pos, pressed, touch_coords,
              from_slot, last_update, gc_counter, status, pending_exc,
              iterations, idles, cleanups, touch_op, op_uptime, op_gap,
              read_failed, unread, lost>>

\* The state of the two threads inside the stopwatch methods.
thread_vars == <<ctl_pc, rd_pc, rd_el, committed, snaps>>

vars == <<ticks_bits, now, start_time, total_elapsed, running, session,
          result, lastOp, phase, uptime, seg_begin, closed_sum, max_stopped,
          seg_max, text, style, stats, flag, drift, advances, app_vars,
          thread_vars>>

\* Python's None.
None == <<>>

Max(a, b) == IF a >= b THEN a ELSE b

\* The duration of a segment as the tick difference modulo the wrap width.
ModDiff(end, start) == (end - start) % TICKS_PERIOD

\* time.ticks_ms(): the current reading of the wrapping counter.
ticks_ms == now

\* The tick difference taken by plain subtraction, blind to the wraparound.
ticks_diff_naive(end, start) == end - start

\* time.ticks_diff(end, start) of MicroPython: the signed difference of two
\* readings, in -TICKS_PERIOD/2 .. TICKS_PERIOD/2 - 1.
ticks_diff(end, start) ==
    ((end - start + TICKS_HALF) % TICKS_PERIOD) - TICKS_HALF

\* __init__ that leaves the stopwatch running.
StopwatchInit_running ==
    /\ start_time = 0
    /\ total_elapsed = 0
    /\ running = TRUE

\* Stopwatch.__init__
StopwatchInit ==
    /\ start_time = 0
    /\ total_elapsed = 0
    /\ running = FALSE

\* start() without the `if not self.running` guard.
start_unguarded ==
    /\ start_time' = ticks_ms
    /\ running' = TRUE
    /\ UNCHANGED total_elapsed

\* start() that records the tick and forgets to set the running flag.
start_no_flag ==
    IF ~running
    THEN /\ start_time' = ticks_ms
         /\ UNCHANGED <<running, total_elapsed>>
    ELSE UNCHANGED sw

\* start() that begins every segment from a zeroed accumulator.
start_clears_total ==
    IF ~running
    THEN /\ start_time' = ticks_ms
         /\ running' = TRUE
         /\ total_elapsed' = 0
    ELSE UNCHANGED sw

\* Stopwatch.start
start ==
    IF ~running
    THEN /\ start_time' = ticks_ms
         /\ running' = TRUE
         /\ UNCHANGED total_elapsed
    ELSE UNCHANGED sw

\* stop() without the `if self.running` guard.
stop_unguarded ==
    /\ total_elapsed' = total_elapsed + ticks_diff(ticks_ms, start_time)
    /\ running' = FALSE
    /\ session' = ticks_diff(ticks_ms, start_time)
    /\ UNCHANGED start_time

\* stop() that overwrites total_elapsed with the session time (= for +=).
stop_overwrites ==
    IF running
    THEN /\ total_elapsed' = ticks_diff(ticks_ms, start_time)
         /\ running' = FALSE
         /\ session' = ticks_diff(ticks_ms, start_time)
         /\ UNCHANGED start_time
    ELSE /\ UNCHANGED sw
         /\ session' = 0

\* stop() that raises when the duration of the segment comes out negative.
stop_rejects_negative ==
    IF running
    THEN /\ ticks_diff(ticks_ms, start_time) >= 0
         /\ total_elapsed' = total_elapsed + ticks_diff(ticks_ms, start_time)
         /\ running' = FALSE
         /\ session' = ticks_diff(ticks_ms, start_time)
         /\ UNCHANGED start_time
    ELSE /\ UNCHANGED sw
         /\ session' = 0

\* Stopwatch.stop
stop ==
    IF running
    THEN /\ total_elapsed' = total_elapsed + ticks_diff(ticks_ms, start_time)
         /\ running' = FALSE
         /\ session' = ticks_diff(ticks_ms, start_time)
         /\ UNCHANGED start_time
    ELSE /\ UNCHANGED sw
         /\ session' = 0

\* reset() that forgets to clear the running flag.
reset_keeps_running ==
    /\ start_time' = 0
    /\ total_elapsed' = 0
    /\ UNCHANGED running

\* Stopwatch.reset
reset ==
    /\ start_time' = 0
    /\ total_elapsed' = 0
    /\ running' = FALSE

\* get_elapsed_time() that leaves the open segment out.
get_elapsed_time_closed_only == total_elapsed

\* Stopwatch.get_elapsed_time
get_elapsed_time ==
    IF running
    THEN total_elapsed + ticks_diff(ticks_ms, start_time)
    ELSE total_elapsed

\* Stopwatch.is_running
is_running == running

\* The decimal digits, as characters.
DigitChars == <<"0", "1", "2", "3", "4", "5", "6", "7", "8", "9">>

\* The decimal digits of n >= 0, most significant first.
RECURSIVE Dec(_)
Dec(n) ==
    IF n < 10 THEN <<DigitChars[n + 1]>>
    ELSE Dec(n \div 10) \o <<DigitChars[(n % 10) + 1]>>

\* chars with zeros put in front until it is w characters long.
RECURSIVE ZeroPad(_, _)
ZeroPad(chars, w) ==
    IF Len(chars) >= w THEN chars ELSE ZeroPad(<<"0">> \o chars, w)

\* Python's f"{n}" of an int.
fmt_d(n) == IF n < 0 THEN <<"-">> \o Dec(-n) ELSE Dec(n)

\* Python's f"{n:0wd}" of an int: zero-padded to a width of w characters,
\* the sign counted in the width.
fmt_0d(n, w) ==
    IF n < 0 THEN <<"-">> \o ZeroPad(Dec(-n), w - 1) ELSE ZeroPad(Dec(n), w)

\* elapsed // 3600000
hours_of(elapsed) == elapsed \div 3600000

\* (elapsed % 3600000) // 60000
minutes_of(elapsed) == (elapsed % 3600000) \div 60000

\* (elapsed % 60000) // 1000
seconds_of(elapsed) == (elapsed % 60000) \div 1000

\* elapsed % 1000
milliseconds_of(elapsed) == elapsed % 1000

\* The 'full' rendering with the hours clamped to a day.
fmt_full_clamped(elapsed) ==
    fmt_0d(hours_of(elapsed) % 24, 2) \o <<":">> \o
    fmt_0d(minutes_of(elapsed), 2) \o <<":">> \o
    fmt_0d(seconds_of(elapsed), 2) \o <<".">> \o
    fmt_0d(milliseconds_of(elapsed), 3)

\* get_formatted_time, format_type == 'full'
fmt_full(elapsed) ==
    fmt_0d(hours_of(elapsed), 2) \o <<":">> \o
    fmt_0d(minutes_of(elapsed), 2) \o <<":">> \o
    fmt_0d(seconds_of(elapsed), 2) \o <<".">> \o
    fmt_0d(milliseconds_of(elapsed), 3)

\* The 'short' rendering that never shows the hours.
fmt_short_no_hours(elapsed) ==
    fmt_0d(minutes_of(elapsed), 2) \o <<":">> \o
    fmt_0d(seconds_of(elapsed), 2)

\* get_formatted_time, format_type == 'short'
fmt_short(elapsed) ==
    IF hours_of(elapsed) > 0
    THEN fmt_0d(hours_of(elapsed), 2) \o <<":">> \o
         fmt_0d(minutes_of(elapsed), 2) \o <<":">> \o
         fmt_0d(seconds_of(elapsed), 2)
    ELSE fmt_0d(minutes_of(elapsed), 2) \o <<":">> \o
         fmt_0d(seconds_of(elapsed), 2)

\* The 'minimal' rendering with the milliseconds left unpadded.
fmt_minimal_unpadded(elapsed) ==
    IF hours_of(elapsed) > 0
    THEN fmt_d(hours_of(elapsed)) \o <<"h", " ">> \o
         fmt_d(minutes_of(elapsed)) \o <<"m">>
    ELSE IF minutes_of(elapsed) > 0
    THEN fmt_d(minutes_of(elapsed)) \o <<"m", " ">> \o
         fmt_d(seconds_of(elapsed)) \o <<"s">>
    ELSE fmt_d(seconds_of(elapsed)) \o <<".">> \o
         fmt_d(milliseconds_of(elapsed)) \o <<"s">>

\* get_formatted_time, format_type == 'minimal'
fmt_minimal(elapsed) ==
    IF hours_of(elapsed) > 0
    THEN fmt_d(hours_of(elapsed)) \o <<"h", " ">> \o
         fmt_d(minutes_of(elapsed)) \o <<"m">>
    ELSE IF minutes_of(elapsed) > 0
    THEN fmt_d(minutes_of(elapsed)) \o <<"m", " ">> \o
         fmt_d(seconds_of(elapsed)) \o <<"s">>
    ELSE fmt_d(seconds_of(elapsed)) \o <<".">> \o
         fmt_0d(milliseconds_of(elapsed), 3) \o <<"s">>

\* The fall-through return that takes an unknown format_type for 'full'.
fmt_raw_as_full(elapsed) == fmt_full(elapsed)

\* get_formatted_time, the return after the if chain: f"{elapsed}ms"
fmt_raw(elapsed) == fmt_d(elapsed) \o <<"m", "s">>

\* Stopwatch.get_formatted_time
get_formatted_time(format_type) ==
    LET elapsed == get_elapsed_time
    IN  IF format_type = "full" THEN fmt_full(elapsed)
        ELSE IF format_type = "short" THEN fmt_short(elapsed)
        ELSE IF format_type = "minimal" THEN fmt_minimal(elapsed)
        ELSE fmt_raw(elapsed)

\* get_session_stats() with the minutes not reduced modulo the hour.
get_session_stats_whole_minutes ==
    LET elapsed == get_elapsed_time
    IN  [total_ms |-> elapsed,
         hours |-> elapsed \div 3600000,
         minutes |-> elapsed \div 60000,
         seconds |-> (elapsed % 60000) \div 1000,
         milliseconds |-> elapsed % 1000,
         is_running |-> running,
         formatted |-> get_formatted_time("full")']

\* Stopwatch.get_session_stats.  The 'formatted' entry comes from a second
\* get_elapsed_time() made by get_formatted_time(), at the clock reading of
\* the end of the call.
get_session_stats ==
    LET elapsed == get_elapsed_time
    IN  [total_ms |-> elapsed,
         hours |-> elapsed \div 3600000,
         minutes |-> (elapsed % 3600000) \div 60000,
         seconds |-> (elapsed % 60000) \div 1000,
         milliseconds |-> elapsed % 1000,
         is_running |-> running,
         formatted |-> get_formatted_time("full")']

\* Stopwatch.lap_time
lap_time == IF running THEN ticks_diff(ticks_ms, start_time) ELSE 0

\* Stopwatch.get_time_components
get_time_components ==
    LET total_ms == get_elapsed_time
    IN  [hours |-> total_ms \div 3600000,
         minutes |-> (total_ms % 3600000) \div 60000,
         seconds |-> (total_ms % 60000) \div 1000,
         milliseconds |-> total_ms % 1000,
         total_ms |-> total_ms]

\* A query that folds the open segment into total_elapsed when it reads it.
query_effect_folds_segment ==
    IF running
    THEN /\ total_elapsed' = get_elapsed_time
         /\ start_time' = ticks_ms
         /\ UNCHANGED running
    ELSE UNCHANGED sw

\* What the query methods do to the fields of the Stopwatch: none of
\* get_elapsed_time, is_running, get_formatted_time, get_session_stats,
\* lap_time and get_time_components assigns to self.
query_effect == UNCHANGED sw

\* The format_type values callers pass: the three styles, and one that
\* get_formatted_time does not know.
Styles == {"full", "short", "minimal", "long"}

\* The jumps of the clock of SpecDevice, in milliseconds.
Jumps == {200, 500, 59999, 3665123, 90061000, 360000000}

\* The value of stats before any statistics query.
NoStats == [total_ms |-> 0]

\* seg_max after a step that neither opens nor closes a segment.
SegMaxKept == IF running THEN seg_max ELSE <<>>

\* No query other than get_elapsed_time() has returned in this step.
ClearOut ==
    /\ text' = <<>>
    /\ style' = ""
    /\ stats' = NoStats
    /\ flag' = FALSE
    /\ drift' = 0

\* The application before main() has run, with its configuration.
AppOff(leds) ==
    /\ led_enabled \in leds
    /\ touch_available = TRUE
    /\ app_running = FALSE
    /\ led = "none"
    /\ last_touch_time = 0
    /\ last_touch_pos = None
    /\ pressed = None
    /\ touch_coords = None
    /\ from_slot = FALSE
    /\ last_update = 0
    /\ gc_counter = 0
    /\ status = ""
    /\ pending_exc = FALSE
    /\ iterations = 0
    /\ idles = 0
    /\ cleanups = 0
    /\ touch_op = <<>>
    /\ op_uptime = -1
    /\ op_gap = -1
    /\ read_failed = FALSE
    /\ unread = FALSE
    /\ lost = FALSE

\* Both threads outside the stopwatch methods.
ThreadsIdle ==
    /\ ctl_pc = "idle"
    /\ rd_pc = "idle"
    /\ rd_el = 0
    /\ committed = <<>>
    /\ snaps = {}

\* The state after construction, over a tick counter of the given width.
InitWith(bits, boot) ==
    /\ ticks_bits = bits
    /\ now \in boot
    /\ StopwatchInit
    /\ session = 0
    /\ result = 0
    /\ lastOp = "init"
    /\ phase = "new"
    /\ uptime = 0
    /\ seg_begin = 0
    /\ closed_sum = 0
    /\ max_stopped = 0
    /\ seg_max = <<>>
    /\ text = <<>>
    /\ style = ""
    /\ stats = NoStats
    /\ flag = FALSE
    /\ drift = 0
    /\ advances = 0

\* The stopwatch on its own: no application around it, one thread.
StopwatchAlone ==
    /\ pc = "off"
    /\ AppOff({TRUE})
    /\ ThreadsIdle

Init == InitWith(TicksBits, BootTicks) /\ StopwatchAlone

\* The device is switched on with its counter at zero.
InitDevice == InitWith(DeviceTicksBits, {0}) /\ StopwatchAlone

\* One millisecond passes: the counter advances and wraps at TICKS_PERIOD.
Tick ==
    /\ uptime < MaxTime
    /\ now' = (now + 1) % TICKS_PERIOD
    /\ uptime' = uptime + 1
    /\ lastOp' = "tick"
    /\ session' = 0
    /\ result' = 0
    /\ ClearOut
    /\ UNCHANGED <<ticks_bits, advances, app_vars, thread_vars>>
    /\ seg_max' = SegMaxKept
    /\ UNCHANGED <<sw, phase, seg_begin, closed_sum, max_stopped>>

\* The control loop calls start().
Start ==
    /\ start
    /\ lastOp' = IF running THEN "start_again" ELSE "start"
    /\ phase' = "used"
    /\ seg_begin' = IF running THEN seg_begin ELSE uptime
    /\ max_stopped' = IF running THEN max_stopped
                      ELSE Max(max_stopped, total_elapsed)
    /\ seg_max' = IF running THEN seg_max ELSE <<>>
    /\ session' = 0
    /\ result' = 0
    /\ ClearOut
    /\ UNCHANGED <<ticks_bits, advances, app_vars, thread_vars>>
    /\ UNCHANGED <<now, uptime, closed_sum>>

\* The control loop calls stop().
Stop ==
    /\ stop
    /\ lastOp' = IF running THEN "stop" ELSE "stop_idle"
    /\ closed_sum' = IF running THEN closed_sum + ModDiff(now, start_time)
                     ELSE closed_sum
    /\ result' = 0
    /\ ClearOut
    /\ UNCHANGED <<ticks_bits, advances, app_vars, thread_vars>>
    /\ seg_max' = SegMaxKept
    /\ UNCHANGED <<now, phase, uptime, seg_begin, max_stopped>>

\* The control loop calls reset().
Reset ==
    /\ reset
    /\ lastOp' = IF running THEN "reset_running" ELSE "reset"
    /\ phase' = "reset"
    /\ closed_sum' = 0
    /\ max_stopped' = 0
    /\ seg_max' = <<>>
    /\ seg_begin' = uptime
    /\ session' = 0
    /\ result' = 0
    /\ ClearOut
    /\ UNCHANGED <<ticks_bits, advances, app_vars, thread_vars>>
    /\ UNCHANGED <<now, uptime>>

\* A caller reads get_elapsed_time().
Elapsed ==
    /\ query_effect
    /\ result' = get_elapsed_time
    /\ lastOp' = "elapsed"
    /\ seg_max' = IF ~running THEN <<>>
                  ELSE IF seg_max = <<>> THEN <<get_elapsed_time>>
                  ELSE <<Max(seg_max[1], get_elapsed_time)>>
    /\ session' = 0
    /\ ClearOut
    /\ UNCHANGED <<ticks_bits, advances, app_vars, thread_vars>>
    /\ UNCHANGED <<now, phase, uptime, seg_begin, closed_sum, max_stopped>>

Next == Tick \/ Start \/ Stop \/ Reset \/ Elapsed

Spec == Init /\ [][Next]_vars

\* The clock of the device jumps ahead and wraps at TICKS_PERIOD.
Advance ==
    \E d \in Jumps :
        /\ advances < MaxAdvances
        /\ now' = (now + d) % TICKS_PERIOD
        /\ uptime' = uptime + d
        /\ advances' = advances + 1
        /\ lastOp' = "tick"
        /\ session' = 0
        /\ result' = 0
        /\ ClearOut
        /\ seg_max' = SegMaxKept
        /\ UNCHANGED <<ticks_bits, sw, phase, seg_begin, closed_sum,
                       max_stopped, app_vars, thread_vars>>

\* What a query that reads no clock twice leaves alone.
QueryFrame ==
    /\ session' = 0
    /\ seg_max' = SegMaxKept
    /\ UNCHANGED <<ticks_bits, now, phase, uptime, seg_begin, closed_sum,
                   max_stopped, advances, app_vars, thread_vars>>

\* A caller reads is_running().
IsRunning ==
    /\ query_effect
    /\ flag' = is_running
    /\ lastOp' = "is_running"
    /\ result' = 0
    /\ text' = <<>>
    /\ style' = ""
    /\ stats' = NoStats
    /\ drift' = 0
    /\ QueryFrame

\* A caller reads get_formatted_time(format_type).
Format ==
    \E format_type \in Styles :
        /\ query_effect
        /\ text' = get_formatted_time(format_type)
        /\ style' = format_type
        /\ lastOp' = "format"
        /\ result' = 0
        /\ stats' = NoStats
        /\ flag' = FALSE
        /\ drift' = 0
        /\ QueryFrame

\* A caller reads get_session_stats(); d milliseconds pass between its two
\* clock reads.
SessionStats ==
    \E d \in 0 .. MaxDrift :
        /\ d > 0 => advances < MaxAdvances
        /\ now' = (now + d) % TICKS_PERIOD
        /\ uptime' = uptime + d
        /\ advances' = IF d > 0 THEN advances + 1 ELSE advances
        /\ drift' = d
        /\ UNCHANGED ticks_bits
        /\ query_effect
        /\ stats' = get_session_stats
        /\ lastOp' = "stats"
        /\ result' = 0
        /\ text' = <<>>
        /\ style' = ""
        /\ flag' = FALSE
        /\ session' = 0
        /\ seg_max' = SegMaxKept
        /\ UNCHANGED <<phase, seg_begin, closed_sum, max_stopped, app_vars,
                       thread_vars>>

\* A caller reads lap_time().
LapTime ==
    /\ query_effect
    /\ result' = lap_time
    /\ lastOp' = "lap"
    /\ text' = <<>>
    /\ style' = ""
    /\ stats' = NoStats
    /\ flag' = FALSE
    /\ drift' = 0
    /\ QueryFrame

\* A caller reads get_time_components().
TimeComponents ==
    /\ query_effect
    /\ stats' = get_time_components
    /\ lastOp' = "components"
    /\ result' = 0
    /\ text' = <<>>
    /\ style' = ""
    /\ flag' = FALSE
    /\ drift' = 0
    /\ QueryFrame

NextDevice ==
    \/ Advance
    \/ Start
    \/ Stop
    \/ Reset
    \/ Elapsed
    \/ IsRunning
    \/ Format
    \/ SessionStats
    \/ LapTime
    \/ TimeComponents

SpecDevice == InitDevice /\ [][NextDevice]_vars

(***************************************************************************)
(* The application: deploy/main.py, deploy/touch_handler.py and            *)
(* display_manager.py.                                                     *)
(***************************************************************************)

\* TouchHandler.touch_debounce, in milliseconds.
touch_debounce == 200

\* config.TOUCH_DEBOUNCE_MS, in milliseconds.
TOUCH_DEBOUNCE_MS == 200

\* config.DISPLAY_UPDATE_INTERVAL, in milliseconds.
DISPLAY_UPDATE_INTERVAL == 100

\* time.sleep_ms(10) at the end of a loop iteration.
LoopSleepMs == 10

\* read_light_level: five readings, time.sleep_ms(2) after each.
LightReadMs == 5 * 2

\* gc.collect() runs every 50 display updates.
GcEvery == 50

\* The except clause: show_message sleeps 2000 ms, then time.sleep(2).
ErrorPauseMs == 2000 + 2 * 1000

\* Number of loop iterations a behaviour of SpecApp covers.
MaxIterations == 3

\* Number of idle periods a behaviour of SpecApp covers.
MaxIdles == 1

\* Number of get_touch() calls a behaviour of SpecTouch covers.
MaxPolls == 23

\* Lengths of the periods in which the loop runs without any touch, in
\* milliseconds: whole numbers of GcEvery display updates.
IdleJumps == {5000, 600000000}

\* Readings of the counter at which the touch handler may be constructed.
TouchBootTicks == {0, 5000}

\* DisplayManager.buttons: (x, y, width, height).
buttons ==
    [start_stop |-> <<50, 180, 100, 40>>, reset |-> <<170, 180, 100, 40>>]

\* Where the finger may come down: the lower right corner of start_stop, the
\* upper left corner of reset, and the gap between the two buttons.
TouchPoints == {<<150, 220>>, <<170, 180>>, <<160, 200>>}

\* is_button_touched that checks the row of the button only.
is_button_touched_any_x(x, y, button_name) ==
    IF button_name \notin DOMAIN buttons THEN FALSE
    ELSE LET by == buttons[button_name][2]
             bh == buttons[button_name][4]
         IN  by <= y /\ y <= by + bh

\* DisplayManager.is_button_touched
is_button_touched(x, y, button_name) ==
    IF button_name \notin DOMAIN buttons THEN FALSE
    ELSE LET bx == buttons[button_name][1]
             by == buttons[button_name][2]
             bw == buttons[button_name][3]
             bh == buttons[button_name][4]
         IN  bx <= x /\ x <= bx + bw /\ by <= y /\ y <= by + bh

\* get_elapsed_time() of a stopwatch whose fields are s = (start_time,
\* total_elapsed, running), read when the clock shows t.
elapsed_of(s, t) == IF s[3] THEN s[2] + ticks_diff(t, s[1]) ELSE s[2]

\* The status chosen by DisplayManager.update_stopwatch_display.
display_status(elapsed_time, running_now) ==
    IF running_now THEN "Running"
    ELSE IF elapsed_time > 0 THEN "Stopped"
    ELSE "Ready"

\* The debounce test of _touch_interrupt.
interrupt_accepts == ticks_diff(ticks_ms, last_touch_time) > touch_debounce

\* TouchHandler._touch_interrupt(x, y), p = (x, y).
touch_interrupt(p) ==
    IF interrupt_accepts
    THEN /\ last_touch_pos' = p
         /\ last_touch_time' = ticks_ms
    ELSE UNCHANGED <<last_touch_pos, last_touch_time>>

\* get_touch() whose except clause falls back on the interrupt's position.
get_touch_pick_through_fault(fault) ==
    IF ~touch_available THEN <<None, FALSE>>
    ELSE IF fault /\ last_touch_pos # None THEN <<last_touch_pos, TRUE>>
    ELSE IF fault THEN <<None, FALSE>>
    ELSE IF pressed # None THEN <<pressed, FALSE>>
    ELSE IF last_touch_pos # None THEN <<last_touch_pos, TRUE>>
    ELSE <<None, FALSE>>

\* TouchHandler.get_touch up to `pos = self.last_touch_pos`: the value it is
\* going to return, and whether it has last_touch_pos to clear.  fault: the
\* driver's get_touch() raises; otherwise the driver returns the position of
\* the finger while the panel is pressed.
get_touch_pick(fault) ==
    IF ~touch_available THEN <<None, FALSE>>
    ELSE IF fault THEN <<None, FALSE>>
    ELSE IF pressed # None THEN <<pressed, FALSE>>
    ELSE IF last_touch_pos # None THEN <<last_touch_pos, TRUE>>
    ELSE <<None, FALSE>>

\* The first half of a get_touch() call.
GetTouchPick ==
    \E fault \in BOOLEAN :
        /\ touch_coords' = get_touch_pick(fault)[1]
        /\ from_slot' = get_touch_pick(fault)[2]
        /\ read_failed' = (touch_available /\ fault)
        /\ unread' = IF get_touch_pick(fault)[2] THEN FALSE ELSE unread

\* The second half of a get_touch() call: `self.last_touch_pos = None` when
\* the position came from there, and the return.
GetTouchReturn ==
    /\ last_touch_pos' = IF from_slot THEN None ELSE last_touch_pos
    /\ lost' = (lost \/ (from_slot /\ unread))
    /\ unread' = IF from_slot THEN FALSE ELSE unread
    /\ from_slot' = FALSE
    /\ UNCHANGED <<touch_coords, read_failed, last_touch_time>>

\* StopwatchApp.set_led_state raises AttributeError when the LED pins are
\* None.
set_led_state_raises == ~led_enabled

\* The call handle_touch_input() makes for the coordinates get_touch()
\* returned: "stop", "start", "reset" or "none".
touch_call ==
    IF touch_coords = None THEN "none"
    ELSE IF is_button_touched(touch_coords[1], touch_coords[2], "start_stop")
    THEN IF is_running THEN "stop" ELSE "start"
    ELSE IF is_button_touched(touch_coords[1], touch_coords[2], "reset")
    THEN "reset"
    ELSE "none"

\* StopwatchApp.handle_touch_input, after get_touch() has returned.
handle_touch_input ==
    /\ touch_call = "stop" =>
           /\ stop
           /\ led' = IF set_led_state_raises THEN led ELSE "stopped"
           /\ touch_op' = <<"stop">>
    /\ touch_call = "start" =>
           /\ start
           /\ session' = 0
           /\ led' = IF set_led_state_raises THEN led ELSE "running"
           /\ touch_op' = <<"start">>
    /\ touch_call = "reset" =>
           /\ reset
           /\ session' = 0
           /\ led' = IF set_led_state_raises THEN led ELSE "ready"
           /\ touch_op' = <<"reset">>
    /\ touch_call = "none" =>
           /\ UNCHANGED <<sw, led>>
           /\ session' = 0
           /\ touch_op' = <<>>

\* What no step of the application changes: the width of the counter, the
\* history of the stopwatch runs, the results of the queries and the
\* threads.
AppFrame ==
    UNCHANGED <<ticks_bits, result, phase, seg_begin, closed_sum, max_stopped,
                seg_max, out, advances, thread_vars>>

\* main(): StopwatchApp.__init__.  The Touch driver may fail to come up; with
\* the LED pins None, set_led_state('ready') raises and main() exits.
AppInit ==
    /\ pc = "main"
    /\ touch_available' \in BOOLEAN
    /\ app_running' = TRUE
    /\ last_update' = ticks_ms
    /\ gc_counter' = 0
    /\ led' = IF set_led_state_raises THEN led ELSE "ready"
    /\ pc' = IF set_led_state_raises THEN "fatal" ELSE "poll"
    /\ lastOp' = "app_init"
    /\ AppFrame
    /\ UNCHANGED <<sw, now, uptime, session, led_enabled, last_touch_time,
                   last_touch_pos, pressed, touch_coords, from_slot, status,
                   pending_exc, iterations, idles, cleanups, touch_op,
                   op_uptime, op_gap, read_failed, unread, lost>>

\* The finger comes down at p; the driver calls _touch_interrupt(x, y).
Press ==
    \E p \in TouchPoints :
        /\ pc \in {"poll", "handle"}
        /\ pressed = None
        /\ pressed' = p
        /\ IF touch_available
           THEN /\ touch_interrupt(p)
                /\ unread' = (unread \/ interrupt_accepts)
                /\ lost' = (lost \/ (unread /\ interrupt_accepts))
           ELSE UNCHANGED <<last_touch_pos, last_touch_time, unread, lost>>
        /\ lastOp' = "press"
        /\ AppFrame
        /\ UNCHANGED <<sw, now, uptime, session, led_enabled, touch_available,
                       pc, app_running, led, touch_coords, from_slot,
                       last_update, gc_counter, status, pending_exc,
                       iterations, idles, cleanups, touch_op, op_uptime,
                       op_gap, read_failed>>

\* The finger is lifted.
Release ==
    /\ pc \in {"poll", "handle"}
    /\ pressed # None
    /\ pressed' = None
    /\ lastOp' = "release"
    /\ AppFrame
    /\ UNCHANGED <<sw, now, uptime, session, led_enabled, touch_available, pc,
                   app_running, led, last_touch_time, last_touch_pos,
                   touch_coords, from_slot, last_update, gc_counter, status,
                   pending_exc, iterations, idles, cleanups, touch_op,
                   op_uptime, op_gap, read_failed, unread, lost>>

\* The top of a loop iteration: `while self.running`, the clock read, and
\* handle_touch_input() up to the point where get_touch() has picked its
\* return value.
Poll ==
    /\ pc = "poll"
    /\ app_running
    /\ iterations < MaxIterations
    /\ GetTouchPick
    /\ touch_op' = <<>>
    /\ op_gap' = -1
    /\ iterations' = iterations + 1
    /\ pc' = "handle"
    /\ lastOp' = "poll"
    /\ session' = 0
    /\ AppFrame
    /\ UNCHANGED <<sw, now, uptime, led_enabled, touch_available, app_running,
                   led, last_touch_time, last_touch_pos, pressed, last_update,
                   gc_counter, status, pending_exc, idles, cleanups,
                   op_uptime, lost>>

\* The rest of the iteration: get_touch() returns, handle_touch_input() makes
\* its stopwatch call, update_display() runs when it is due, and the loop
\* sleeps.  An exception (the LED pins are None, or the display driver
\* raises while drawing) leads to the except clause.
Handle ==
    /\ pc = "handle"
    /\ GetTouchReturn
    /\ handle_touch_input
    /\ op_uptime' = IF touch_call # "none" THEN uptime ELSE op_uptime
    /\ op_gap' = IF touch_call # "none" /\ op_uptime >= 0
                 THEN uptime - op_uptime ELSE -1
    /\ LET due == ticks_diff(ticks_ms, last_update) >= DISPLAY_UPDATE_INTERVAL
           led_fails == touch_call # "none" /\ set_led_state_raises
           took == LoopSleepMs + (IF due THEN LightReadMs ELSE 0)
       IN  \E draw_fails \in BOOLEAN :
               /\ draw_fails => due
               /\ IF led_fails \/ draw_fails
                  THEN /\ pc' = "except"
                       /\ UNCHANGED <<now, uptime, last_update, gc_counter,
                                      status>>
                  ELSE /\ pc' = "poll"
                       /\ now' = (now + took) % TICKS_PERIOD
                       /\ uptime' = uptime + took
                       /\ last_update' = IF due THEN ticks_ms ELSE last_update
                       /\ gc_counter' = IF ~due THEN gc_counter
                                        ELSE IF gc_counter + 1 >= GcEvery
                                        THEN 0 ELSE gc_counter + 1
                       /\ status' =
                              IF due
                              THEN display_status(elapsed_of(sw', ticks_ms),
                                                  running')
                              ELSE status
    /\ lastOp' = "handle"
    /\ AppFrame
    /\ UNCHANGED <<led_enabled, touch_available, app_running, pressed,
                   pending_exc, iterations, idles, cleanups>>

\* The loop runs for a while without a touch: nobody presses the panel, no
\* position is waiting, and the display is refreshed every
\* DISPLAY_UPDATE_INTERVAL; the period ends at the top of an iteration in
\* which the next refresh is due.
Idle ==
    \E d \in IdleJumps :
        /\ pc = "poll"
        /\ app_running
        /\ idles < MaxIdles
        /\ pressed = None
        /\ last_touch_pos = None
        /\ LET span == d + DISPLAY_UPDATE_INTERVAL
                         - ticks_diff(ticks_ms, last_update)
           IN  /\ now' = (now + span) % TICKS_PERIOD
               /\ uptime' = uptime + span
        /\ last_update' = (last_update + d) % TICKS_PERIOD
        /\ status' = display_status(elapsed_of(sw, last_update'), running)
        /\ idles' = idles + 1
        /\ touch_coords' = None
        /\ touch_op' = <<>>
        /\ op_gap' = -1
        /\ read_failed' = FALSE
        /\ session' = 0
        /\ lastOp' = "idle"
        /\ AppFrame
        /\ UNCHANGED <<sw, led_enabled, touch_available, pc, app_running, led,
                       last_touch_time, last_touch_pos, pressed, from_slot,
                       gc_counter, pending_exc, iterations, cleanups,
                       op_uptime, unread, lost>>

\* Something outside the loop clears StopwatchApp.running, the loop
\* condition.
StopRequest ==
    /\ pc \in {"poll", "handle"}
    /\ app_running
    /\ app_running' = FALSE
    /\ lastOp' = "stop_request"
    /\ AppFrame
    /\ UNCHANGED <<sw, now, uptime, session, led_enabled, touch_available, pc,
                   led, last_touch_time, last_touch_pos, pressed,
                   touch_coords, from_slot, last_update, gc_counter, status,
                   pending_exc, iterations, idles, cleanups, touch_op,
                   op_uptime, op_gap, read_failed, unread, lost>>

\* `while self.running` finds the flag cleared: the try block ends.
LoopExit ==
    /\ pc = "poll"
    /\ ~app_running
    /\ pc' = "finally"
    /\ lastOp' = "loop_exit"
    /\ AppFrame
    /\ UNCHANGED <<sw, now, uptime, session, led_enabled, touch_available,
                   app_running, led, last_touch_time, last_touch_pos, pressed,
                   touch_coords, from_slot, last_update, gc_counter, status,
                   pending_exc, iterations, idles, cleanups, touch_op,
                   op_uptime, op_gap, read_failed, unread, lost>>

\* Ctrl-C during the loop: the except KeyboardInterrupt clause.
KeyboardInterrupt ==
    /\ pc \in {"poll", "handle"}
    /\ app_running' = FALSE
    /\ from_slot' = FALSE
    /\ pc' = "finally"
    /\ lastOp' = "keyboard_interrupt"
    /\ AppFrame
    /\ UNCHANGED <<sw, now, uptime, session, led_enabled, touch_available,
                   led, last_touch_time, last_touch_pos, pressed,
                   touch_coords, last_update, gc_counter, status, pending_exc,
                   iterations, idles, cleanups, touch_op, op_uptime, op_gap,
                   read_failed, unread, lost>>

\* The except Exception clause that leaves run_main_loop at once.
except_clause_leaves(shown) ==
    /\ pc' = "raised"
    /\ pending_exc' = ~shown
    /\ UNCHANGED <<now, uptime>>

\* The except Exception clause: show_message("ERROR!") and time.sleep(2);
\* when show_message raises in its turn (shown is false), that exception
\* propagates.  Either way the finally clause follows.
except_clause(shown) ==
    /\ pc' = "finally"
    /\ pending_exc' = ~shown
    /\ IF shown
       THEN /\ now' = (now + ErrorPauseMs) % TICKS_PERIOD
            /\ uptime' = uptime + ErrorPauseMs
       ELSE UNCHANGED <<now, uptime>>

ExceptHandler ==
    \E shown \in BOOLEAN :
        /\ pc = "except"
        /\ except_clause(shown)
        /\ lastOp' = "except"
        /\ AppFrame
        /\ UNCHANGED <<sw, session, led_enabled, touch_available, app_running,
                       led, last_touch_time, last_touch_pos, pressed,
                       touch_coords, from_slot, last_update, gc_counter,
                       status, iterations, idles, cleanups, touch_op,
                       op_uptime, op_gap, read_failed, unread, lost>>

\* The finally clause: cleanup(), whose own exceptions (the LED pins are
\* None) are caught inside it; then run_main_loop returns, or the pending
\* exception goes on to main().
Finally ==
    /\ pc = "finally"
    /\ cleanups' = cleanups + 1
    /\ led' = IF led_enabled THEN "none" ELSE led
    /\ pc' = IF pending_exc THEN "raised" ELSE "exited"
    /\ lastOp' = "cleanup"
    /\ AppFrame
    /\ UNCHANGED <<sw, now, uptime, session, led_enabled, touch_available,
                   app_running, last_touch_time, last_touch_pos, pressed,
                   touch_coords, from_slot, last_update, gc_counter, status,
                   pending_exc, iterations, idles, touch_op, op_uptime,
                   op_gap, read_failed, unread, lost>>

\* The device is switched on with its counter at zero and main() about to
\* run, the LEDs enabled in config.py or not.
InitApp ==
    /\ InitWith(DeviceTicksBits, {0})
    /\ pc = "main"
    /\ AppOff(BOOLEAN)
    /\ ThreadsIdle

NextApp ==
    \/ AppInit
    \/ Press
    \/ Release
    \/ Poll
    \/ Handle
    \/ Idle
    \/ StopRequest
    \/ LoopExit
    \/ KeyboardInterrupt
    \/ ExceptHandler
    \/ Finally

SpecApp == InitApp /\ [][NextApp]_vars

\* The interpreter goes on executing: a loop that found its condition false
\* leaves, an except clause runs to its end, a finally clause is executed.
SpecAppLive ==
    /\ InitApp
    /\ [][NextApp]_vars
    /\ WF_vars(LoopExit)
    /\ WF_vars(ExceptHandler)
    /\ WF_vars(Finally)

\* A polling loop calls get_touch().
TouchPoll ==
    /\ pc = "poll"
    /\ iterations < MaxPolls
    /\ GetTouchPick
    /\ iterations' = iterations + 1
    /\ pc' = "handle"
    /\ lastOp' = "touch_poll"
    /\ AppFrame
    /\ UNCHANGED <<sw, now, uptime, session, led_enabled, touch_available,
                   app_running, led, last_touch_time, last_touch_pos, pressed,
                   last_update, gc_counter, status, pending_exc, idles,
                   cleanups, touch_op, op_uptime, op_gap, lost>>

\* get_touch() returns, and the polling loop sleeps until its next call.
TouchReturn ==
    /\ pc = "handle"
    /\ GetTouchReturn
    /\ now' = (now + LoopSleepMs) % TICKS_PERIOD
    /\ uptime' = uptime + LoopSleepMs
    /\ pc' = "poll"
    /\ lastOp' = "touch_return"
    /\ AppFrame
    /\ UNCHANGED <<sw, session, led_enabled, touch_available, app_running,
                   led, pressed, last_update, gc_counter, status, pending_exc,
                   iterations, idles, cleanups, touch_op, op_uptime, op_gap>>

\* The touch handler on its own, constructed with a working driver.
InitTouch ==
    /\ InitWith(DeviceTicksBits, TouchBootTicks)
    /\ pc = "poll"
    /\ AppOff({TRUE})
    /\ ThreadsIdle

NextTouch == Press \/ Release \/ TouchPoll \/ TouchReturn

SpecTouch == InitTouch /\ [][NextTouch]_vars

(***************************************************************************)
(* The stopwatch under two threads: the control loop inside start(),       *)
(* stop() and reset(), and the web monitor inside get_elapsed_time(), the  *)
(* first call of get_session_stats().  Neither method takes a lock, so the *)
(* threads interleave between the statements that read or write a field.   *)
(***************************************************************************)

\* Number of milliseconds a behaviour of SpecThreads covers.
MaxThreadTime == 4

\* What no step of the two threads changes.
ThreadFrame ==
    UNCHANGED <<ticks_bits, phase, seg_begin, closed_sum, max_stopped,
                seg_max, out, advances, app_vars>>

\* A stopwatch call of the control thread has completed and left the fields
\* at s.
Commit(s) ==
    /\ committed' = s
    /\ snaps' = IF rd_pc = "idle" THEN snaps ELSE snaps \cup {s}

\* A millisecond passes while the reader is outside get_elapsed_time() (a
\* read takes far less than a millisecond).
ThreadTick ==
    /\ rd_pc = "idle"
    /\ uptime < MaxThreadTime
    /\ now' = (now + 1) % TICKS_PERIOD
    /\ uptime' = uptime + 1
    /\ lastOp' = "tick"
    /\ ThreadFrame
    /\ UNCHANGED <<sw, session, result, thread_vars>>

\* The control thread enters start(): the test of line 19 and, when the
\* stopwatch is stopped, `self.start_time = time.ticks_ms()`.
ThreadStart ==
    /\ ctl_pc = "idle"
    /\ IF ~running
       THEN /\ start_time' = ticks_ms
            /\ ctl_pc' = "start_flag"
            /\ UNCHANGED <<committed, snaps>>
       ELSE /\ UNCHANGED <<start_time, ctl_pc>>
            /\ Commit(sw)
    /\ lastOp' = "start_begin"
    /\ ThreadFrame
    /\ UNCHANGED <<now, uptime, total_elapsed, running, session, result,
                   rd_pc, rd_el>>

\* The control thread enters stop(): the test of line 26 and, when the
\* stopwatch is running, lines 27 to 29, up to `self.total_elapsed +=
\* elapsed`.
ThreadStop ==
    /\ ctl_pc = "idle"
    /\ IF running
       THEN /\ total_elapsed' =
                   total_elapsed + ticks_diff(ticks_ms, start_time)
            /\ session' = ticks_diff(ticks_ms, start_time)
            /\ ctl_pc' = "stop_flag"
            /\ UNCHANGED <<committed, snaps>>
       ELSE /\ UNCHANGED <<total_elapsed, ctl_pc>>
            /\ session' = 0
            /\ Commit(sw)
    /\ lastOp' = "stop_begin"
    /\ ThreadFrame
    /\ UNCHANGED <<now, uptime, start_time, running, result, rd_pc, rd_el>>

\* The control thread enters reset(): `self.start_time = 0`.
ThreadReset ==
    /\ ctl_pc = "idle"
    /\ start_time' = 0
    /\ ctl_pc' = "reset_total"
    /\ lastOp' = "reset_begin"
    /\ ThreadFrame
    /\ UNCHANGED <<now, uptime, total_elapsed, running, session, result,
                   rd_pc, rd_el, committed, snaps>>

\* The control thread executes the next statement of the method it is in:
\* `self.running = True` of start(), `self.running = False` of stop(),
\* `self.total_elapsed = 0` or `self.running = False` of reset().
ControlStep ==
    /\ ctl_pc # "idle"
    /\ IF ctl_pc = "reset_total"
       THEN /\ total_elapsed' = 0
            /\ ctl_pc' = "reset_flag"
            /\ UNCHANGED <<running, committed, snaps>>
       ELSE /\ running' = (ctl_pc = "start_flag")
            /\ ctl_pc' = "idle"
            /\ Commit(<<start_time, total_elapsed, ctl_pc = "start_flag">>)
            /\ UNCHANGED total_elapsed
    /\ lastOp' = "control_step"
    /\ ThreadFrame
    /\ UNCHANGED <<now, uptime, start_time, session, result, rd_pc, rd_el>>

\* The reader enters get_elapsed_time(): `if self.running`.
ReadBegin ==
    /\ rd_pc = "idle"
    /\ rd_pc' = IF running THEN "read_start" ELSE "read_total"
    /\ rd_el' = 0
    /\ snaps' = {committed}
    /\ lastOp' = "read_begin"
    /\ ThreadFrame
    /\ UNCHANGED <<now, uptime, sw, session, result, ctl_pc, committed>>

\* The reader on the running branch: the clock read and
\* `current_elapsed = time.ticks_diff(current_time, self.start_time)`.
ReadClock ==
    /\ rd_pc = "read_start"
    /\ rd_el' = ticks_diff(ticks_ms, start_time)
    /\ rd_pc' = "read_total"
    /\ lastOp' = "read_clock"
    /\ ThreadFrame
    /\ UNCHANGED <<now, uptime, sw, session, result, ctl_pc, committed,
                   snaps>>

\* The reader returns self.total_elapsed + current_elapsed (line 45), or
\* self.total_elapsed (line 47).
ReadReturn ==
    /\ rd_pc = "read_total"
    /\ result' = total_elapsed + rd_el
    /\ rd_pc' = "idle"
    /\ lastOp' = "read"
    /\ ThreadFrame
    /\ UNCHANGED <<now, uptime, sw, session, ctl_pc, rd_el, committed,
                   snaps>>

\* A new stopwatch, shared by the control loop and the reader.
InitThreads ==
    /\ InitWith(TicksBits, {0})
    /\ pc = "off"
    /\ AppOff({TRUE})
    /\ ctl_pc = "idle"
    /\ rd_pc = "idle"
    /\ rd_el = 0
    /\ committed = sw
    /\ snaps = {}

NextThreads ==
    \/ ThreadTick
    \/ ThreadStart
    \/ ThreadStop
    \/ ThreadReset
    \/ ControlStep
    \/ ReadBegin
    \/ ReadClock
    \/ ReadReturn

SpecThreads == InitThreads /\ [][NextThreads]_vars

TypeOK ==
    /\ now \in 0 .. TICKS_PERIOD - 1
    /\ start_time \in 0 .. TICKS_PERIOD - 1
    /\ total_elapsed \in Int
    /\ running \in BOOLEAN
    /\ uptime \in 0 .. MaxTime

\* x is a value of the unsigned 64-bit range, 0 <= x < 2^64 (2^64 is written
\* as four divisions by 2^16).
InU64(x) ==
    /\ x >= 0
    /\ (((x \div 65536) \div 65536) \div 65536) \div 65536 = 0

\* Real length of the open (or last closed) segment in milliseconds; after a
\* reset(), the real time passed since it.
SegmentLength == uptime - seg_begin

(***************************************************************************)
(* C1: whenever the stopwatch is stopped, elapsed() equals the sum of the  *)
(* durations (stop tick minus start tick, modulo the wrap width) of the    *)
(* segments closed since the last reset().                                 *)
(***************************************************************************)
C1_ElapsedIsSumOfSegments ==
    ~running => get_elapsed_time = closed_sum

(***************************************************************************)
(* C2: a segment that starts at tick TICKS_PERIOD - 10 and is read at tick *)
(* 5 after one wraparound has a duration of exactly 15 ticks, both as the  *)
(* session time of stop() and in a running elapsed() query.                *)
(***************************************************************************)
C2_WrapSegmentIs15 ==
    (start_time = TICKS_PERIOD - 10 /\ now = 5 /\ SegmentLength = 15) =>
        /\ (lastOp = "stop" => session = 15)
        /\ (lastOp = "elapsed" /\ running => result = total_elapsed + 15)

C2_Witness ==
    /\ lastOp = "stop"
    /\ start_time = TICKS_PERIOD - 10
    /\ now = 5
    /\ SegmentLength = 15
    /\ session = 15
    /\ total_elapsed >= 15

C2_WitnessRunning ==
    /\ lastOp = "elapsed"
    /\ running
    /\ start_time = TICKS_PERIOD - 10
    /\ now = 5
    /\ SegmentLength = 15
    /\ result = total_elapsed + 15

(***************************************************************************)
(* C3: without a reset(), elapsed() in a later stopped state is greater    *)
(* than or equal to its value in every earlier stopped state.              *)
(***************************************************************************)
C3_StoppedElapsedMonotone ==
    ~running => get_elapsed_time >= max_stopped

(***************************************************************************)
(* C4: from a start() through its closing stop(), elapsed() is never       *)
(* negative and never goes backwards: a read while running is >= every     *)
(* earlier read of the segment, and the value after stop() is >= every     *)
(* value read during the segment.                                          *)
(***************************************************************************)
C4_NoBackwardsInSegment ==
    /\ (lastOp = "elapsed" /\ running) =>
           (result >= 0 /\ result >= seg_max[1])
    /\ (lastOp = "stop" /\ seg_max # <<>>) =>
           (total_elapsed >= 0 /\ total_elapsed >= seg_max[1])

(***************************************************************************)
(* C5: the duration stop() adds is clamped to >= 0: stop() never decreases *)
(* total_elapsed, whatever start_time and the stop-time reading are.       *)
(***************************************************************************)
C5_StopNeverDecreases ==
    [][lastOp' = "stop" => total_elapsed' >= total_elapsed]_vars

(***************************************************************************)
(* C6: in every reachable state total_elapsed is a value of the unsigned   *)
(* 64-bit range.                                                           *)
(***************************************************************************)
C6_AccumulatorIsU64 ==
    InU64(total_elapsed)

(***************************************************************************)
(* C7: start() while already running is a no-op: it leaves start_time,     *)
(* total_elapsed and running unchanged, also when the clock has advanced   *)
(* since the first start().                                                *)
(***************************************************************************)
C7_StartIdempotent ==
    [][lastOp' = "start_again" =>
           UNCHANGED <<start_time, total_elapsed, running>>]_vars

C7_Witness ==
    /\ lastOp = "start_again"
    /\ running
    /\ now # start_time
    /\ SegmentLength > 0

(***************************************************************************)
(* C8: stop() when not running leaves total_elapsed, running and           *)
(* start_time unchanged, at any clock value.                               *)
(***************************************************************************)
C8_StopIdleNoOp ==
    [][lastOp' = "stop_idle" =>
           UNCHANGED <<start_time, total_elapsed, running>>]_vars

C8_Witness ==
    /\ lastOp = "stop_idle"
    /\ ~running
    /\ total_elapsed > 0
    /\ ticks_diff(now, start_time) # 0

(***************************************************************************)
(* C9: after reset(), from any prior state, elapsed() is 0 and             *)
(* is_running() is false, and elapsed() stays 0 at every later clock value *)
(* until the next start().                                                 *)
(***************************************************************************)
C9_ResetClears ==
    phase = "reset" => (get_elapsed_time = 0 /\ ~is_running /\
                        (lastOp = "elapsed" => result = 0))

C9_Witness ==
    /\ phase = "reset"
    /\ lastOp = "elapsed"
    /\ result = 0
    /\ now # 0
    /\ SegmentLength > 1
    /\ uptime > SegmentLength + 1

(***************************************************************************)
(* C10: elapsed() returns total_elapsed when stopped and                   *)
(* total_elapsed + ticks_diff(now, start_time) when running.               *)
(***************************************************************************)
C10_ElapsedValue ==
    lastOp = "elapsed" =>
        result = IF running
                 THEN total_elapsed + ticks_diff(now, start_time)
                 ELSE total_elapsed

C10_Witness ==
    /\ lastOp = "elapsed"
    /\ running
    /\ total_elapsed > 0
    /\ result > total_elapsed

\* The characters that are decimal digits.
Digits == {DigitChars[i] : i \in 1 .. 10}

\* The value of the digit character c.
DigitVal(c) == CHOOSE d \in 0 .. 9 : DigitChars[d + 1] = c

\* cs is a non-empty string of decimal digits.
IsDigits(cs) == Len(cs) > 0 /\ \A i \in 1 .. Len(cs) : cs[i] \in Digits

\* The number a string of decimal digits reads as.
RECURSIVE Val(_)
Val(cs) ==
    IF cs = <<>> THEN 0
    ELSE 10 * Val(SubSeq(cs, 1, Len(cs) - 1)) + DigitVal(cs[Len(cs)])

\* cs reads as the integer n: digits, after a minus sign when n < 0.
Reads(cs, n) ==
    IF n < 0
    THEN Len(cs) > 1 /\ cs[1] = "-" /\ IsDigits(Tail(cs)) /\ Val(Tail(cs)) = -n
    ELSE IsDigits(cs) /\ Val(cs) = n

\* cs reads as n and carries no padding zeros.
ReadsUnpadded(cs, n) ==
    /\ Reads(cs, n)
    /\ LET ds == IF n < 0 THEN Tail(cs) ELSE cs
       IN  Len(ds) = 1 \/ ds[1] # "0"

\* The step just taken is one of the queries.
Queries == {"elapsed", "is_running", "format", "stats", "lap", "components"}

\* elapsed() at the clock reading at which the last call began.
ElapsedAtCall ==
    IF running
    THEN total_elapsed
         + ticks_diff((now - drift) % TICKS_PERIOD, start_time)
    ELSE total_elapsed

(***************************************************************************)
(* C11: on a millisecond clock, a segment opened at tick 0 reads 500 at    *)
(* tick 500 while running and leaves total_elapsed = 500 when stopped at   *)
(* tick 500; a second segment from tick 700 to tick 900 leaves             *)
(* total_elapsed = 700, and get_session_stats() then reports total_ms 700, *)
(* hours 0, minutes 0, seconds 0, milliseconds 700, is_running false.      *)
(***************************************************************************)
C11_Scenario ==
    /\ (lastOp = "elapsed" /\ running /\ seg_begin = 0 /\ uptime = 500)
           => result = 500
    /\ (lastOp = "stop" /\ seg_begin = 0 /\ uptime = 500)
           => total_elapsed = 500
    /\ (lastOp = "stop" /\ seg_begin = 700 /\ uptime = 900
            /\ max_stopped = 500)
           => total_elapsed = 700
    /\ (lastOp = "stats" /\ ~running /\ phase = "used" /\ seg_begin = 700
            /\ uptime = 900 /\ max_stopped = 500 /\ closed_sum = 700)
           => /\ stats.total_ms = 700
              /\ stats.hours = 0
              /\ stats.minutes = 0
              /\ stats.seconds = 0
              /\ stats.milliseconds = 700
              /\ stats.is_running = FALSE

C11_Witness ==
    /\ lastOp = "stats"
    /\ ~running
    /\ phase = "used"
    /\ seg_begin = 700
    /\ uptime = 900
    /\ now = 900
    /\ max_stopped = 500
    /\ closed_sum = 700
    /\ stats.total_ms = 700
    /\ stats.milliseconds = 700

(***************************************************************************)
(* C12: a newly created stopwatch is stopped and zeroed: until the first   *)
(* start(), is_running() is false and elapsed() is 0 at any clock value.   *)
(***************************************************************************)
C12_NewIsStoppedZero ==
    phase = "new" =>
        /\ ~is_running
        /\ get_elapsed_time = 0
        /\ (lastOp = "elapsed" => result = 0)

C12_Witness ==
    /\ phase = "new"
    /\ lastOp = "elapsed"
    /\ result = 0
    /\ uptime > 0
    /\ now # 0

(***************************************************************************)
(* C13: the running flag follows the two-state machine: start() always     *)
(* leads to running, stop() and reset() always lead to stopped, and no     *)
(* other step changes the flag, so is_running() is true exactly when the   *)
(* most recent of the start/stop/reset calls was start(); before any call  *)
(* it is false.                                                            *)
(***************************************************************************)
C13_RunningFollowsLastCall ==
    /\ ~running
    /\ [][/\ lastOp' \in {"start", "start_again"} => running'
          /\ lastOp' \in {"stop", "stop_idle", "reset", "reset_running"}
                 => ~running'
          /\ lastOp' \in Queries \cup {"tick"} => running' = running]_vars

C13_Witness ==
    /\ lastOp = "start"
    /\ running
    /\ phase = "used"
    /\ total_elapsed > 0

(***************************************************************************)
(* C14: the queries get_elapsed_time, is_running, get_formatted_time,      *)
(* get_session_stats, lap_time and get_time_components leave               *)
(* total_elapsed, running and start_time unchanged in every state.         *)
(***************************************************************************)
C14_QueriesDoNotMutate ==
    [][lastOp' \in Queries =>
           UNCHANGED <<start_time, total_elapsed, running>>]_vars

C14_Witness ==
    /\ lastOp = "components"
    /\ running
    /\ total_elapsed > 0
    /\ stats.total_ms > total_elapsed

(***************************************************************************)
(* C15: start() never changes total_elapsed, and while a segment is open   *)
(* total_elapsed holds only the time of the closed segments: no step that  *)
(* ends with the stopwatch running changes it.                             *)
(***************************************************************************)
C15_StartKeepsTotal ==
    [][running' => total_elapsed' = total_elapsed]_vars

C15_Witness ==
    /\ lastOp = "start"
    /\ running
    /\ total_elapsed > 0
    /\ SegmentLength = 0

(***************************************************************************)
(* C16: get_session_stats() returns total_ms = elapsed(), hours =          *)
(* total_ms / 3600000, minutes = (total_ms % 3600000) / 60000, seconds =   *)
(* (total_ms % 60000) / 1000, milliseconds = total_ms % 1000 and           *)
(* is_running = running; so 0 <= minutes < 60, 0 <= seconds < 60,          *)
(* 0 <= milliseconds < 1000 and the four parts add up to total_ms.         *)
(***************************************************************************)
C16_SessionStats ==
    lastOp = "stats" =>
        /\ stats.total_ms = ElapsedAtCall
        /\ stats.hours = stats.total_ms \div 3600000
        /\ stats.minutes = (stats.total_ms % 3600000) \div 60000
        /\ stats.seconds = (stats.total_ms % 60000) \div 1000
        /\ stats.milliseconds = stats.total_ms % 1000
        /\ stats.is_running = running
        /\ stats.minutes \in 0 .. 59
        /\ stats.seconds \in 0 .. 59
        /\ stats.milliseconds \in 0 .. 999
        /\ stats.hours * 3600000 + stats.minutes * 60000
               + stats.seconds * 1000 + stats.milliseconds = stats.total_ms

C16_Witness ==
    /\ lastOp = "stats"
    /\ running
    /\ stats.is_running
    /\ stats.hours > 0
    /\ stats.minutes > 0
    /\ stats.seconds > 0
    /\ stats.milliseconds > 0

C17_WitnessHour ==
    /\ lastOp = "format"
    /\ style = "full"
    /\ get_elapsed_time = 3665123
    /\ text = <<"0", "1", ":", "0", "1", ":", "0", "5", ".", "1", "2", "3">>

(***************************************************************************)
(* C18: get_formatted_time('short') renders elapsed() as HH:MM:SS when     *)
(* hours > 0 and as MM:SS otherwise, zero-padded, without milliseconds;    *)
(* 3665123 ms gives "01:01:05".                                            *)
(***************************************************************************)
C18_FormatShort ==
    (lastOp = "format" /\ style = "short") =>
        LET e == get_elapsed_time
            n == Len(text)
        IN  /\ n >= 5
            /\ Reads(SubSeq(text, n - 1, n), (e % 60000) \div 1000)
            /\ text[n - 2] = ":"
            /\ Reads(SubSeq(text, n - 4, n - 3), (e % 3600000) \div 60000)
            /\ IF e \div 3600000 > 0
               THEN /\ n >= 8
                    /\ text[n - 5] = ":"
                    /\ Reads(SubSeq(text, 1, n - 6), e \div 3600000)
               ELSE n = 5
            /\ (e = 3665123 =>
                   text = <<"0", "1", ":", "0", "1", ":", "0", "5">>)

C18_Witness ==
    /\ lastOp = "format"
    /\ style = "short"
    /\ get_elapsed_time = 3665123
    /\ text = <<"0", "1", ":", "0", "1", ":", "0", "5">>

C18_WitnessNoHours ==
    /\ lastOp = "format"
    /\ style = "short"
    /\ get_elapsed_time = 59999
    /\ text = <<"0", "0", ":", "5", "9">>

(***************************************************************************)
(* C19: get_formatted_time('minimal') renders elapsed() as "{h}h {m}m"     *)
(* when hours > 0, else "{m}m {s}s" when minutes > 0, else "{s}.{mmm}s",   *)
(* h, m and s unpadded and the milliseconds in three digits; 3665123 ms    *)
(* gives "1h 1m".                                                          *)
(***************************************************************************)
C19_FormatMinimal ==
    (lastOp = "format" /\ style = "minimal") =>
        LET e == get_elapsed_time
            n == Len(text)
            h == e \div 3600000
            m == (e % 3600000) \div 60000
            sec == (e % 60000) \div 1000
            ms == e % 1000
        IN  /\ IF h > 0
               THEN /\ text[n] = "m"
                    /\ \E k \in 2 .. n - 3 :
                           /\ ReadsUnpadded(SubSeq(text, 1, k - 1), h)
                           /\ text[k] = "h"
                           /\ text[k + 1] = " "
                           /\ ReadsUnpadded(SubSeq(text, k + 2, n - 1), m)
               ELSE IF m > 0
               THEN /\ text[n] = "s"
                    /\ \E k \in 2 .. n - 3 :
                           /\ ReadsUnpadded(SubSeq(text, 1, k - 1), m)
                           /\ text[k] = "m"
                           /\ text[k + 1] = " "
                           /\ ReadsUnpadded(SubSeq(text, k + 2, n - 1), sec)
               ELSE /\ n >= 6
                    /\ text[n] = "s"
                    /\ Reads(SubSeq(text, n - 3, n - 1), ms)
                    /\ text[n - 4] = "."
                    /\ ReadsUnpadded(SubSeq(text, 1, n - 5), sec)
            /\ (e = 3665123 => text = <<"1", "h", " ", "1", "m">>)

C19_Witness ==
    /\ lastOp = "format"
    /\ style = "minimal"
    /\ get_elapsed_time = 3665123
    /\ text = <<"1", "h", " ", "1", "m">>

C19_WitnessMinutes ==
    /\ lastOp = "format"
    /\ style = "minimal"
    /\ get_elapsed_time \div 3600000 = 0
    /\ get_elapsed_time \div 60000 > 0

C19_WitnessSeconds ==
    /\ lastOp = "format"
    /\ style = "minimal"
    /\ get_elapsed_time = 1
    /\ text = <<"0", ".", "0", "0", "1", "s">>

(***************************************************************************)
(* C20: get_formatted_time accepts only the styles full, short and         *)
(* minimal: a call with any other style value returns no formatted result. *)
(***************************************************************************)
C20_OnlyThreeStyles ==
    (lastOp = "format" /\ style \notin {"full", "short", "minimal"}) =>
        text = <<>>

(***************************************************************************)
(* C20, amended: the style is a free-form string; a call with a style      *)
(* other than full, short and minimal returns the fall-through rendering,  *)
(* elapsed() in unpadded decimal followed by "ms".                         *)
(***************************************************************************)
C20_UnknownStyleGivesRawMs ==
    (lastOp = "format" /\ style \notin {"full", "short", "minimal"}) =>
        LET n == Len(text)
        IN  /\ n >= 3
            /\ text[n - 1] = "m"
            /\ text[n] = "s"
            /\ ReadsUnpadded(SubSeq(text, 1, n - 2), get_elapsed_time)

C20_Witness ==
    /\ lastOp = "format"
    /\ style = "long"
    /\ running
    /\ get_elapsed_time = 500
    /\ text = <<"5", "0", "0", "m", "s">>

(***************************************************************************)
(* C21: start, stop, reset, elapsed and is_running are total: in every     *)
(* reachable state, at every reading of the clock, each of the five calls  *)
(* can be taken, and the fields and results it leaves are well defined: a  *)
(* tick reading, an integer and a boolean.                                 *)
(***************************************************************************)
C21_OperationsAreTotal ==
    /\ ENABLED Start
    /\ ENABLED Stop
    /\ ENABLED Reset
    /\ ENABLED Elapsed
    /\ ENABLED IsRunning
    /\ start_time \in 0 .. TICKS_PERIOD - 1
    /\ total_elapsed \in Int
    /\ running \in BOOLEAN
    /\ result \in Int
    /\ session \in Int
    /\ flag \in BOOLEAN
    /\ get_elapsed_time \in Int

C21_Witness ==
    /\ lastOp = "stop"
    /\ session < 0
    /\ total_elapsed < 0
    /\ ENABLED Start
    /\ ENABLED Elapsed

(***************************************************************************)
(* C27: in the dict returned by get_session_stats() the 'formatted' entry  *)
(* is the full rendering of the total_ms of the same dict, also when the   *)
(* stopwatch is running and the clock advances between the two clock reads *)
(* of the call.                                                            *)
(***************************************************************************)
C27_FormattedMatchesTotal ==
    lastOp = "stats" => stats.formatted = fmt_full(stats.total_ms)

\* The fields a stopwatch call in progress in the control thread is going to
\* leave, none when the control thread is between calls.
PostState ==
    IF ctl_pc = "start_flag" THEN {<<start_time, total_elapsed, TRUE>>}
    ELSE IF ctl_pc = "stop_flag" THEN {<<start_time, total_elapsed, FALSE>>}
    ELSE IF ctl_pc \in {"reset_total", "reset_flag"} THEN {<<0, 0, FALSE>>}
    ELSE {}

(***************************************************************************)
(* C22: a get_elapsed_time() made by a second thread while the control     *)
(* loop is inside start(), stop() or reset() returns the elapsed value, at *)
(* the clock reading of the read, of the fields as they were before or     *)
(* after one of the concurrent calls, never a value that counts the open   *)
(* segment twice.                                                          *)
(***************************************************************************)
C22_ReadsAreSnapshots ==
    lastOp = "read" =>
        \E s \in snaps \cup PostState : result = elapsed_of(s, now)

\* p = (x, y) lies in the rectangle of the button, its border included.
Inside(p, button_name) ==
    /\ p # None
    /\ p[1] \in buttons[button_name][1]
                 .. buttons[button_name][1] + buttons[button_name][3]
    /\ p[2] \in buttons[button_name][2]
                 .. buttons[button_name][2] + buttons[button_name][4]

(***************************************************************************)
(* C23: after every handled touch the LED shows the state of the           *)
(* stopwatch: 'running' iff is_running(), 'stopped' iff not running and    *)
(* elapsed() > 0, 'ready' iff not running and elapsed() = 0.               *)
(***************************************************************************)
C23_LedFollowsStopwatch ==
    (lastOp = "handle" /\ pc = "poll" /\ touch_coords # None) =>
        /\ led = "running" <=> is_running
        /\ led = "stopped" <=> (~is_running /\ get_elapsed_time > 0)
        /\ led = "ready" <=> (~is_running /\ get_elapsed_time = 0)

(***************************************************************************)
(* C24: two stopwatch calls made by handle_touch_input() are never less    *)
(* than the debounce time of 200 ms apart.                                 *)
(***************************************************************************)
C24_TouchCallsDebounced ==
    op_gap = -1 \/ op_gap >= TOUCH_DEBOUNCE_MS

(***************************************************************************)
(* C25: when the touch driver raises inside get_touch(), or the touch      *)
(* initialisation failed, get_touch() returns None and the iteration calls *)
(* none of start(), stop() and reset(): the stopwatch is left unchanged.   *)
(***************************************************************************)
C25_FailedReadLeavesStopwatch ==
    [][(pc = "handle" /\ (read_failed \/ ~touch_available)) =>
           /\ touch_coords = None
           /\ UNCHANGED <<start_time, total_elapsed, running>>
           /\ lastOp' = "handle" => touch_op' = <<>>]_vars

C25_Witness ==
    /\ lastOp = "handle"
    /\ pc = "poll"
    /\ read_failed
    /\ pressed = <<150, 220>>
    /\ last_touch_pos = <<150, 220>>
    /\ touch_coords = None
    /\ touch_op = <<>>

C25_WitnessNoDriver ==
    /\ lastOp = "handle"
    /\ pc = "poll"
    /\ ~touch_available
    /\ pressed = <<170, 180>>
    /\ uptime > 0
    /\ touch_op = <<>>

(***************************************************************************)
(* C26: with LED_ENABLED false the application still initialises and runs  *)
(* its main loop; it never ends in the fatal error of main().              *)
(***************************************************************************)
C26_RunsWithoutLeds ==
    ~led_enabled => pc \in {"main", "poll", "handle", "finally", "exited"}

(***************************************************************************)
(* C28: a touch returned by get_touch() triggers at most one stopwatch     *)
(* call: no position lies in both button areas; inside start_stop the      *)
(* iteration flips is_running() once, by stop() when running and start()   *)
(* otherwise; inside reset it calls reset() only; outside both it changes  *)
(* nothing.                                                                *)
(***************************************************************************)
C28_OneCallPerTouch ==
    [][(pc = "handle" /\ lastOp' = "handle") =>
           /\ ~(Inside(touch_coords, "start_stop")
                    /\ Inside(touch_coords, "reset"))
           /\ Len(touch_op') <= 1
           /\ Inside(touch_coords, "start_stop") =>
                  /\ running' = ~running
                  /\ touch_op' = <<IF running THEN "stop" ELSE "start">>
                  /\ total_elapsed' = IF running THEN elapsed_of(sw, now)
                                      ELSE total_elapsed
           /\ Inside(touch_coords, "reset") =>
                  /\ touch_op' = <<"reset">>
                  /\ start_time' = 0
                  /\ total_elapsed' = 0
                  /\ running' = FALSE
           /\ (~Inside(touch_coords, "start_stop")
                   /\ ~Inside(touch_coords, "reset")) =>
                  /\ touch_op' = <<>>
                  /\ UNCHANGED <<start_time, total_elapsed, running>>]_vars

C28_Witness ==
    /\ lastOp = "handle"
    /\ touch_coords = <<170, 180>>
    /\ touch_op = <<"reset">>
    /\ led = "ready"
    /\ op_gap > 0

C28_WitnessToggle ==
    /\ lastOp = "handle"
    /\ touch_coords = <<150, 220>>
    /\ touch_op = <<"stop">>
    /\ ~running
    /\ total_elapsed > 0

C28_WitnessOutside ==
    /\ lastOp = "handle"
    /\ touch_coords = <<160, 200>>
    /\ touch_op = <<>>
    /\ running

(***************************************************************************)
(* C29: every position accepted by _touch_interrupt is returned by exactly *)
(* one later get_touch(): none is overwritten or cleared before a          *)
(* get_touch() has picked it up.                                           *)
(***************************************************************************)
C29_NoAcceptedTouchLost == ~lost

(***************************************************************************)
(* C30: however run_main_loop is left, by the loop condition, by           *)
(* KeyboardInterrupt or by an exception of the iteration, cleanup() is     *)
(* executed, exactly once, and after the last loop iteration.              *)
(***************************************************************************)
C30_CleanupOnceAfterLoop ==
    /\ [](cleanups <= 1)
    /\ [](pc \in {"exited", "raised"} => cleanups = 1)
    /\ [](cleanups = 1 => pc \in {"exited", "raised"})
    /\ (pc \in {"except", "finally"} \/ (pc = "poll" /\ ~app_running))
           ~> (cleanups = 1)

C30_Witness ==
    /\ pc = "raised"
    /\ pending_exc
    /\ cleanups = 1
    /\ iterations > 0

C30_WitnessInterrupt ==
    /\ pc = "exited"
    /\ lastOp = "cleanup"
    /\ cleanups = 1
    /\ running
    /\ led = "none"

====
